---------------------------- MODULE Spec2Model ----------------------------
(***************************************************************************)
(* Model of dataprofiler/profilers/helpers/report_helpers.py               *)
(* (calculate_quantiles, flat_dict, _prepare_report) and of                *)
(* dataprofiler/profilers/utils.py (KeyDict, shuffle_in_chunks).           *)
(*                                                                         *)
(* Python values are tagged records [t |-> <type>, v |-> <payload>]:       *)
(*   dict     v: function from keys (strings) to values                    *)
(*   list     v: sequence of values                                        *)
(*   ndarray  v: sequence of integers (a one-dimensional integer array)    *)
(*   set      v: set of integers                                           *)
(*   float    v: integer, the number in units of 10^-5                     *)
(*   int      v: integer          str   v: string         None             *)
(*   raise    v: the name of the exception that left the call              *)
(* A Python string is a sequence of tokens; a token is one character       *)
(* (".", "*", "_", " ", "[", "]") or an atom standing for a run of other   *)
(* characters ("data_stats", "12").  split, join, replace and slicing work *)
(* on tokens.                                                              *)
(***************************************************************************)
EXTENDS Integers, Sequences, FiniteSets, TLC

VARIABLES
    report,               \* the caller's report object
    omit_keys,            \* the caller's omit_keys list object
    omit0,                \* what omit_keys held when the caller built it
    omit_in,              \* what omit_keys held when the last call began
    output_format,        \* output_format of the last call
    result,               \* what the last call returned (or raised)
    prev,                 \* the output that was fed back into the last call
    pc,                   \* "idle" | "start" | "called" | "reapplied"
    quantiles,            \* calculate_quantiles: the quantiles argument
    num_quantile_groups,  \* calculate_quantiles: the num_quantile_groups argument
    q_result,             \* calculate_quantiles: returned dict, or the raise
    q_pc,                 \* "idle" | "start" | "done"
    data_length,          \* shuffle_in_chunks: argument
    chunk_size,           \* shuffle_in_chunks: argument
    indices,              \* shuffle_in_chunks: the KeyDict (stored entries only)
    j,                    \* shuffle_in_chunks: next position to fix
    chunk_ind,            \* shuffle_in_chunks: loop variable of the chunk loop
    count,                \* shuffle_in_chunks: loop variable of the inner loop
    values,               \* shuffle_in_chunks: the chunk being filled
    random_list,          \* shuffle_in_chunks: the draws of this chunk
    yielded,              \* shuffle_in_chunks: the chunks yielded so far
    s_pc                  \* "idle" | "start" | "fill" | "done"

transformVars == <<report, omit_keys, omit0, omit_in, output_format, result, prev, pc>>
quantileVars == <<quantiles, num_quantile_groups, q_result, q_pc>>
shuffleVars == <<data_length, chunk_size, indices, j, chunk_ind, count, values,
                 random_list, yielded, s_pc>>
vars == <<transformVars, quantileVars, shuffleVars>>

(***************************************************************************)
(* Python values                                                           *)
(***************************************************************************)
None == [t |-> "None", v |-> 0]
PyInt(n) == [t |-> "int", v |-> n]
PyFloat(n) == [t |-> "float", v |-> n]
PyStr(s) == [t |-> "str", v |-> s]
PyDict(f) == [t |-> "dict", v |-> f]
PyList(s) == [t |-> "list", v |-> s]
NdArray(s) == [t |-> "ndarray", v |-> s]
PySet(s) == [t |-> "set", v |-> s]
Raise(e) == [t |-> "raise", v |-> e]
EmptyDict == << >>

IsRaise(x) == x.t = "raise"
IsDict(x) == x.t = "dict"

(***************************************************************************)
(* Strings                                                                 *)
(***************************************************************************)
\* str.split(sep, 1): at most one split, at the first separator.
RECURSIVE FirstIndexOf(_, _, _)
FirstIndexOf(s, tok, from) ==
    IF from > Len(s) THEN 0
    ELSE IF s[from] = tok THEN from
    ELSE FirstIndexOf(s, tok, from + 1)

Split1(s, sep) ==
    LET i == FirstIndexOf(s, sep, 1)
    IN IF i = 0 THEN <<s>>
       ELSE <<SubSeq(s, 1, i - 1), SubSeq(s, i + 1, Len(s))>>

\* str.split(sep): split at every separator.
RECURSIVE Split(_, _)
Split(s, sep) ==
    LET i == FirstIndexOf(s, sep, 1)
    IN IF i = 0 THEN <<s>>
       ELSE <<SubSeq(s, 1, i - 1)>> \o Split(SubSeq(s, i + 1, Len(s)), sep)

\* sep.join(parts)
RECURSIVE Join(_, _)
Join(parts, sep) ==
    IF Len(parts) = 0 THEN << >>
    ELSE IF Len(parts) = 1 THEN parts[1]
    ELSE parts[1] \o <<sep>> \o Join(Tail(parts), sep)

\* str.replace(old, new) for one-character old and new.
Replace(s, old, new) == [i \in 1..Len(s) |-> IF s[i] = old THEN new ELSE s[i]]

\* str(i) for a non-negative int: its decimal digits, one atom.
StrOfInt(i) == <<ToString(i)>>

\* str.isdigit() and int(str) for the strings the model builds: a string
\* is all digits iff it is the one atom str(n) of some n up to MaxIndex.
MaxIndex == 3
IsDigit(s) == \E n \in 0..MaxIndex : s = StrOfInt(n)
IntOfStr(s) == CHOOSE n \in 0..MaxIndex : s = StrOfInt(n)

\* str.lower() on the output formats the model passes.
Lower(s) ==
    CASE s = "Compact" -> "compact"
      [] s = "Pretty" -> "pretty"
      [] s = "Serializable" -> "serializable"
      [] s = "Flat" -> "flat"
      [] OTHER -> s

(***************************************************************************)
(* dict iteration order.  A dict iterates in insertion order; the reports  *)
(* of the model are built with their keys inserted in the order KeyLess    *)
(* gives (tokens ranked by TokenOrder, strings compared token by token).   *)
(***************************************************************************)
TokenOrder ==
    <<"", " ", "_", ".", "*", "0", "1", "2", "3", "a", "b", "c",
      "global_stats", "samples", "profile_schema", "data_stats",
      "column_name", "statistics", "min", "histogram", "times",
      "null_types", "bin_edges", "order", "tags", "matrix", "rows">>

TokenRanks == [tok \in {TokenOrder[i] : i \in 1..Len(TokenOrder)} |->
                  CHOOSE i \in 1..Len(TokenOrder) : TokenOrder[i] = tok]

TokenRank(tok) == IF tok \in DOMAIN TokenRanks THEN TokenRanks[tok] ELSE 0

RECURSIVE KeyLess(_, _)
KeyLess(a, b) ==
    IF Len(b) = 0 THEN FALSE
    ELSE IF Len(a) = 0 THEN TRUE
    ELSE IF TokenRank(a[1]) # TokenRank(b[1])
         THEN TokenRank(a[1]) < TokenRank(b[1])
    ELSE KeyLess(Tail(a), Tail(b))

RECURSIVE IterKeys(_)
IterKeys(keys) ==
    IF keys = {} THEN << >>
    ELSE LET first == CHOOSE k \in keys : \A o \in keys \ {k} : KeyLess(k, o)
         IN <<first>> \o IterKeys(keys \ {first})

(***************************************************************************)
(* flat_dict                                                               *)
(***************************************************************************)
\* A dict comprehension: a later item replaces an earlier one of the same key.
Update(d, e) ==
    [k \in DOMAIN d \cup DOMAIN e |-> IF k \in DOMAIN e THEN e[k] ELSE d[k]]

\* str(key).replace(' ','_') + separator + str(k) if key else k
FlatKey(key, separator, k) ==
    IF key # << >> THEN Replace(key, " ", "_") \o <<separator>> \o k ELSE k

RECURSIVE flat_dict(_, _, _)
RECURSIVE FlatItems(_, _, _, _)
\* the items of od[kk] for kk in keys, in order, renamed under key
FlatItems(od, keys, separator, key) ==
    IF Len(keys) = 0 THEN EmptyDict
    ELSE LET kk == Head(keys)
             sub == flat_dict(od[kk], separator, kk)
             renamed == [n \in {FlatKey(key, separator, k) : k \in DOMAIN sub}
                           |-> sub[CHOOSE k \in DOMAIN sub :
                                      FlatKey(key, separator, k) = n]]
         IN Update(renamed, FlatItems(od, Tail(keys), separator, key))

\* flat_dict(od, separator, key): a function from flattened keys to leaves
flat_dict(od, separator, key) ==
    IF od.t = "dict"
    THEN FlatItems(od.v, IterKeys(DOMAIN od.v), separator, key)
    ELSE (key :> od)

\* flat_dict(od), with the default separator and key
Flatten(od) == PyDict(flat_dict(od, "_", << >>))

(***************************************************************************)
(* numpy.array2string(value, separator=', ') for the arrays of the model:  *)
(* non-negative integers, one- or two-dimensional, every line shorter than *)
(* numpy's line width and fewer elements than its summarising threshold.   *)
(***************************************************************************)
RECURSIVE CharLen(_)
CharLen(s) == IF Len(s) = 0 THEN 0 ELSE Len(s[1]) + CharLen(Tail(s))

RECURSIVE Spaces(_)
Spaces(n) == IF n <= 0 THEN << >> ELSE <<" ">> \o Spaces(n - 1)

RECURSIVE MaxWidth(_)
MaxWidth(nums) ==
    IF Len(nums) = 0 THEN 0
    ELSE LET w == Len(ToString(nums[1]))
             r == MaxWidth(Tail(nums))
         IN IF w > r THEN w ELSE r

RECURSIVE RowItems(_, _)
RowItems(nums, width) ==
    IF Len(nums) = 0 THEN << >>
    ELSE LET item == Spaces(width - Len(ToString(nums[1]))) \o <<ToString(nums[1])>>
         IN IF Len(nums) = 1 THEN item
            ELSE item \o <<",", " ">> \o RowItems(Tail(nums), width)

RECURSIVE Concat(_)
Concat(seqs) == IF Len(seqs) = 0 THEN << >> ELSE seqs[1] \o Concat(Tail(seqs))

RECURSIVE RowLines(_, _)
RowLines(rows, width) ==
    IF Len(rows) = 0 THEN << >>
    ELSE LET line == <<"[">> \o RowItems(rows[1], width) \o <<"]">>
         IN IF Len(rows) = 1 THEN line
            ELSE line \o <<",", "\n", " ">> \o RowLines(Tail(rows), width)

\* arr: [dim |-> 1, v |-> numbers] or [dim |-> 2, v |-> rows of numbers]
Array2String(arr) ==
    IF arr.dim = 1
    THEN <<"[">> \o RowItems(arr.v, MaxWidth(arr.v)) \o <<"]">>
    ELSE <<"[">> \o RowLines(arr.v, MaxWidth(Concat(arr.v))) \o <<"]">>

\* value[:ind] and value[-ind:] along the first axis
HeadSlice(arr, ind) ==
    [arr EXCEPT !.v = SubSeq(arr.v, 1, IF ind < Len(arr.v) THEN ind ELSE Len(arr.v))]
TailSlice(arr, ind) ==
    [arr EXCEPT !.v = SubSeq(arr.v, IF ind < Len(arr.v) THEN Len(arr.v) - ind + 1 ELSE 1,
                             Len(arr.v))]

\* numpy.array(value) for a list: a list of ints is one-dimensional, a list
\* of integer arrays (or of lists of ints) of one length is two-dimensional.
AsArray(value) ==
    IF value.t = "ndarray" THEN [dim |-> 1, v |-> value.v]
    ELSE IF \A i \in 1..Len(value.v) : value.v[i].t = "int"
         THEN [dim |-> 1, v |-> [i \in 1..Len(value.v) |-> value.v[i].v]]
    ELSE [dim |-> 2,
          v |-> [i \in 1..Len(value.v) |->
                    IF value.v[i].t = "ndarray" THEN value.v[i].v
                    ELSE [n \in 1..Len(value.v[i].v) |-> value.v[i].v[n].v]]]

max_str_len == 50
max_array_len == 5

RECURSIVE TruncateLoop(_, _, _)
\* the while loop of lines 197-202, entered with str_value and ind
TruncateLoop(arr, str_value, ind) ==
    IF CharLen(str_value) <= max_str_len
    THEN LET head == Array2String(HeadSlice(arr, ind))
             tail == Array2String(TailSlice(arr, ind))
             next == SubSeq(head, 1, Len(head) - 1)
                     \o <<",", " ", ".", ".", ".", " ", ",", " ">>
                     \o SubSeq(tail, 2, Len(tail))
         IN TruncateLoop(arr, next, ind + 1)
    ELSE str_value

\* lines 189-204: the string a list or array becomes in pretty format
PrettyArray(value) ==
    LET arr == AsArray(value)
        str_value == Array2String(arr)
    IN IF CharLen(str_value) > max_str_len /\ Len(arr.v) > max_array_len
       THEN PyStr(TruncateLoop(arr, << >>, 1))
       ELSE PyStr(str_value)

\* round(value, 4) of a float held in units of 10^-5: to the nearest
\* multiple of 10.  Which way a tie goes depends on the float's binary
\* value; the floats of the model are never on a tie.
Round4(n) ==
    LET r == n % 10
        down == n - r
    IN IF r < 5 THEN down
       ELSE IF r > 5 THEN down + 10
       ELSE IF (down \div 10) % 2 = 0 THEN down ELSE down + 10

\* sorted(list(value)) of a set of ints
RECURSIVE SortedList(_)
SortedList(set) ==
    IF set = {} THEN << >>
    ELSE LET m == CHOOSE x \in set : \A y \in set : x <= y
         IN <<PyInt(m)>> \o SortedList(set \ {m})

\* ndarray.tolist()
ToList(value) == PyList([i \in 1..Len(value.v) |-> PyInt(value.v[i])])

(***************************************************************************)
(* _prepare_report                                                         *)
(***************************************************************************)
NoneFormat == "None"     \* output_format=None

KeyDataStats == <<"data_stats">>
KeyGlobalStats == <<"global_stats">>
KeyProfileSchema == <<"profile_schema">>
Wildcard == <<"*">>

Path(segments) == Join(segments, ".")

\* lines 82-88: what compact appends to omit_keys
CompactOmitKeys ==
    << Path(<<KeyDataStats, Wildcard, <<"statistics">>, <<"times">>>>),
       Path(<<KeyDataStats, Wildcard, <<"statistics">>, <<"avg_predictions">>>>),
       Path(<<KeyDataStats, Wildcard, <<"statistics">>, <<"data_label_representation">>>>),
       Path(<<KeyDataStats, Wildcard, <<"statistics">>, <<"null_types_index">>>>),
       Path(<<KeyDataStats, Wildcard, <<"statistics">>, <<"histogram">>>>) >>

\* lines 72-73
LoweredFormat(fmt) == IF fmt = NoneFormat THEN fmt ELSE Lower(fmt)

\* lines 81-88: the omit_keys list after the compact branch.  omit_keys is
\* the caller's list object, extended in place.
OmitKeysAfterCompact(fmt, omit) ==
    IF LoweredFormat(fmt) = "compact" THEN omit \o CompactOmitKeys ELSE omit

\* line 89
FormatAfterCompact(fmt) ==
    IF LoweredFormat(fmt) = "compact" THEN "pretty" ELSE LoweredFormat(fmt)

\* line 98: report["global_stats"]["profile_schema"][name]
SchemaLookup(rep, name) ==
    IF KeyGlobalStats \notin DOMAIN rep THEN Raise("KeyError")
    ELSE LET gs == rep[KeyGlobalStats]
         IN IF gs.t # "dict" THEN Raise("TypeError")
            ELSE IF KeyProfileSchema \notin DOMAIN gs.v THEN Raise("KeyError")
            ELSE LET ps == gs.v[KeyProfileSchema]
                 IN IF ps.t # "dict" THEN Raise("TypeError")
                    ELSE IF name \notin DOMAIN ps.v THEN Raise("KeyError")
                    ELSE ps.v[name]

\* SwappedKeys gone wrong: only the first index gets a path
SwappedKeysFirstIndex(key_list, idxs) ==
    IF Len(idxs) = 0 THEN << >>
    ELSE <<Join([key_list EXCEPT ![2] = StrOfInt(Head(idxs).v)], ".")>>

\* lines 99-103: one swapped path per index.  swapped_list is key_list
\* itself (line 100), whose second entry each turn of the loop overwrites.
RECURSIVE SwappedKeys(_, _)
SwappedKeys(key_list, idxs) ==
    IF Len(idxs) = 0 THEN << >>
    ELSE LET swapped_list == [key_list EXCEPT ![2] = StrOfInt(Head(idxs).v)]
         IN <<Join(swapped_list, ".")>> \o SwappedKeys(swapped_list, Tail(idxs))

\* lines 95-105 for one omit_key: the paths it adds to new_omit_keys
ExpandOmitKey(rep, omit_key) ==
    LET key_list == Split(omit_key, ".")
    IN IF Len(key_list) > 1 /\ key_list[1] = KeyDataStats /\ key_list[2] # Wildcard
       THEN LET idxs == SchemaLookup(rep, key_list[2])
            IN IF IsRaise(idxs) THEN idxs
               ELSE IF idxs.t = "list" THEN PyList(SwappedKeys(key_list, idxs.v))
               ELSE IF idxs.t = "ndarray"
                    THEN PyList(SwappedKeys(key_list, ToList(idxs).v))
               ELSE IF idxs.t = "set"
                    THEN PyList(SwappedKeys(key_list, SortedList(idxs.v)))
               ELSE Raise("TypeError")
       ELSE PyList(<<omit_key>>)

\* lines 93-107: new_omit_keys, or the exception of the first lookup that fails
RECURSIVE ExpandOmitKeys(_, _)
ExpandOmitKeys(rep, omit) ==
    IF Len(omit) = 0 THEN PyList(<< >>)
    ELSE LET first == ExpandOmitKey(rep, Head(omit))
         IN IF IsRaise(first) THEN first
            ELSE LET rest == ExpandOmitKeys(rep, Tail(omit))
                 IN IF IsRaise(rest) THEN rest ELSE PyList(first.v \o rest.v)

\* key in omit_keys
InList(key, omit) == \E i \in 1..Len(omit) : omit[i] = key

\* lines 130-138 and 171-179 for one omit_key: what it passes one layer down
LayerBelow(omit_key, key) ==
    LET omit_key_split == Split1(omit_key, ".")
    IN IF Len(omit_key_split) > 1
       THEN LET next_key_layer == omit_key_split[Len(omit_key_split)]
                prior_key_layer == omit_key_split[1]
            IN IF Len(next_key_layer) > 0
                  /\ (prior_key_layer = Wildcard \/ prior_key_layer = key)
               THEN <<next_key_layer>>
               ELSE << >>
       ELSE << >>

\* lines 169-179
RECURSIVE NextLayerOmitKeys(_, _)
NextLayerOmitKeys(omit, key) ==
    IF Len(omit) = 0 THEN << >>
    ELSE LayerBelow(Head(omit), key) \o NextLayerOmitKeys(Tail(omit), key)

\* lines 128-138
DataStatOmitKeys(omit, key) == NextLayerOmitKeys(omit, key)

\* IndexMatches gone wrong: the wildcard selects no entry
IndexMatchesDigitsOnly(index, i) == IsDigit(index) /\ IntOfStr(index) = i

\* lines 153-154: does the index segment select entry i
IndexMatches(index, i) ==
    (IsDigit(index) /\ IntOfStr(index) = i) \/ index = Wildcard

\* lines 143-155: the omit keys of data_stats entry i (counted from 0)
RECURSIVE IndexOmitKeys(_, _)
IndexOmitKeys(data_stat_omit_keys, i) ==
    IF Len(data_stat_omit_keys) = 0 THEN << >>
    ELSE LET key_split == Split1(Head(data_stat_omit_keys), ".")
             here == IF Len(key_split) > 1
                        /\ Len(key_split[Len(key_split)]) > 0
                        /\ IndexMatches(key_split[1], i)
                     THEN <<key_split[Len(key_split)]>>
                     ELSE << >>
         IN here \o IndexOmitKeys(Tail(data_stat_omit_keys), i)

\* lines 185-214: a value that is neither data_stats, profile_schema nor a dict
FormatLeaf(value, fmt) ==
    IF value.t = "list" \/ value.t = "ndarray"
    THEN IF fmt = "pretty" THEN PrettyArray(value)
         ELSE IF fmt = "serializable" /\ value.t = "ndarray" THEN ToList(value)
         ELSE value
    ELSE IF value.t = "float" /\ fmt = "pretty" THEN PyFloat(Round4(value.v))
    ELSE value

RECURSIVE PrepareReport(_, _, _)
RECURSIVE PrepareKeys(_, _, _, _, _)
RECURSIVE PrepareDataStats(_, _, _, _)
RECURSIVE PrepareDataStatsNoFormat(_, _, _, _)

\* PrepareDataStats gone wrong: the entries are prepared without the format
PrepareDataStatsNoFormat(value, i, fmt, data_stat_omit_keys) ==
    IF i >= Len(value) THEN PyList(<< >>)
    ELSE LET entry == PrepareReport(value[i + 1], NoneFormat,
                                    IndexOmitKeys(data_stat_omit_keys, i))
             rest == PrepareDataStatsNoFormat(value, i + 1, fmt, data_stat_omit_keys)
         IN IF IsRaise(entry) THEN entry
            ELSE IF IsRaise(rest) THEN rest
            ELSE PyList(<<entry>> \o rest.v)

\* lines 142-159: the entries from i on, appended to fmt_report["data_stats"]
PrepareDataStats(value, i, fmt, data_stat_omit_keys) ==
    IF i >= Len(value) THEN PyList(<< >>)
    ELSE LET entry == PrepareReport(value[i + 1], fmt,
                                    IndexOmitKeys(data_stat_omit_keys, i))
         IN IF IsRaise(entry) THEN entry
            ELSE LET rest == PrepareDataStats(value, i + 1, fmt, data_stat_omit_keys)
                 IN IF IsRaise(rest) THEN rest ELSE PyList(<<entry>> \o rest.v)

\* lines 115-214 for one key that is not omitted: fmt_report[key]
PrepareValue(rep, key, fmt, omit) ==
    LET value == IF rep[key].t = "set" THEN PyList(SortedList(rep[key].v))
                 ELSE rep[key]
    IN IF key = KeyDataStats /\ value.t = "list"
       THEN PrepareDataStats(value.v, 0, fmt, DataStatOmitKeys(omit, key))
       ELSE IF key = KeyProfileSchema THEN value
       ELSE IF value.t = "dict"
            THEN PrepareReport(value, fmt, NextLayerOmitKeys(omit, key))
       ELSE FormatLeaf(value, fmt)

\* lines 109-214: the loop over the report's keys, from fmt_report on
PrepareKeys(rep, keys, fmt, omit, fmt_report) ==
    IF Len(keys) = 0 THEN PyDict(fmt_report)
    ELSE LET key == Head(keys)
         IN IF InList(key, omit)
            THEN PrepareKeys(rep, Tail(keys), fmt, omit, fmt_report)
            ELSE LET val == PrepareValue(rep, key, fmt, omit)
                 IN IF IsRaise(val) THEN val
                    ELSE PrepareKeys(rep, Tail(keys), fmt, omit,
                                     Update(fmt_report, (key :> val)))

\* _prepare_report(report, output_format, omit_keys): the returned dict,
\* or the exception that leaves the call.  Iterating a report that is not
\* a dict (line 109) is a TypeError.
PrepareReport(rep, fmt, omit) ==
    LET format == FormatAfterCompact(fmt)
        new_omit_keys == IF rep.t = "dict"
                         THEN ExpandOmitKeys(rep.v, OmitKeysAfterCompact(fmt, omit))
                         ELSE Raise("TypeError")
    IN IF IsRaise(new_omit_keys) THEN new_omit_keys
       ELSE LET fmt_report == PrepareKeys(rep.v, IterKeys(DOMAIN rep.v), format,
                                          new_omit_keys.v, EmptyDict)
            IN IF IsRaise(fmt_report) THEN fmt_report
               ELSE IF format = "flat" THEN Flatten(fmt_report)
               ELSE fmt_report

(***************************************************************************)
(* The reports, omission paths and formats the calls are made with         *)
(***************************************************************************)
Statistics(min, histogram) ==
    PyDict((<<"min">> :> PyFloat(min))
           @@ (<<"histogram">> :> histogram)
           @@ (<<"times">> :> PyDict((<<"min">> :> PyFloat(27))))
           @@ (<<"null_types">> :> PySet({2, 0})))

Column(name, min, histogram) ==
    PyDict((<<"column_name">> :> PyStr(<<name>>))
           @@ (<<"statistics">> :> Statistics(min, histogram)))

Histogram(edges) == PyDict((<<"bin_edges">> :> NdArray(edges)))

\* a structured profile: three columns, two of them named "a"
StructuredReport ==
    PyDict((KeyGlobalStats :>
               PyDict((<<"samples">> :> PyInt(3))
                      @@ (KeyProfileSchema :>
                             PyDict((<<"a">> :> PyList(<<PyInt(0), PyInt(2)>>))
                                    @@ (<<"b">> :> PyList(<<PyInt(1)>>))))))
           @@ (KeyDataStats :>
                  PyList(<<Column("a", 123456, Histogram(<<0, 1, 2>>)),
                           Column("b", 250000, NdArray(<<4, 10>>)),
                           Column("a", 99996, Histogram(<<5, 6>>))>>)))

\* an unstructured profile: data_stats is a dict, there is no profile_schema
UnstructuredReport ==
    PyDict((KeyGlobalStats :> PyDict((<<"samples">> :> PyInt(3))))
           @@ (KeyDataStats :>
                  PyDict((<<"statistics">> :> Statistics(6, Histogram(<<7>>))))))

\* leaves of every kind: a long list, a set, an array inside a list, a key
\* with a space, a profile_schema that holds arrays
LeafReport ==
    PyDict((<<"order">> :>
               PyList(<<PyInt(10000000), PyInt(20000000), PyInt(30000000),
                        PyInt(40000000), PyInt(50000000), PyInt(60000000)>>))
           @@ (<<"tags">> :> PySet({3, 1, 2}))
           @@ (<<"matrix">> :> PyList(<<NdArray(<<1, 20>>)>>))
           @@ (<<"a", " ", "b">> :>
                  PyDict((<<"c">> :> PyDict((<<"a", " ", "b">> :> NdArray(<<7, 8>>)))))))

\* one column, its profile_schema entry an array
ArraySchemaReport ==
    PyDict((KeyGlobalStats :>
               PyDict((KeyProfileSchema :> PyDict((<<"a">> :> NdArray(<<0>>))))))
           @@ (KeyDataStats :> PyList(<<Column("a", 7, PyList(<<PyInt(1)>>))>>)))

\* two paths that flatten to the one key a_b_c
CollidingReport ==
    PyDict((<<"a">> :> PyDict((<<"b">> :> PyDict((<<"c">> :> PyInt(1))))))
           @@ (<<"a", "_", "b">> :> PyDict((<<"c">> :> PyInt(2)))))

Reports ==
    {StructuredReport, UnstructuredReport, LeafReport, ArraySchemaReport,
     CollidingReport}

HistogramPath == Path(<<KeyDataStats, Wildcard, <<"statistics">>, <<"histogram">>>>)
SpecHistogramPath == Path(<<Wildcard, <<"statistics">>, <<"histogram">>>>)

PathUniverse ==
    << KeyGlobalStats,
       Path(<<KeyGlobalStats, <<"samples">>>>),
       SpecHistogramPath,
       HistogramPath,
       Path(<<KeyDataStats, <<"a">>, <<"statistics">>, <<"histogram">>>>),
       Path(<<KeyDataStats, <<"b">>, <<"statistics">>>>),
       Path(<<KeyDataStats, <<"a">>>>),
       Path(<<KeyDataStats, <<"0">>, <<"statistics">>>>),
       Path(<<KeyDataStats, <<"c">>, <<"statistics">>>>),
       Path(<<KeyDataStats, <<"b">>, KeyDataStats, <<"c">>>>),
       <<"rows">>,
       Path(<<Wildcard, KeyDataStats, <<"a">>>>),
       <<"a", "_", "b", "_", "c">>,
       Path(<<KeyDataStats, Wildcard>>),
       Wildcard,
       Path(<<<<"a", " ", "b">>, <<"c">>>>) >>

MaxOmit == 2

\* the omit_keys lists: up to MaxOmit paths, in the order of PathUniverse
OmitLists ==
    LET picks == UNION {[1..n -> 1..Len(PathUniverse)] : n \in 0..MaxOmit}
        rising == {s \in picks : \A i \in 1..(Len(s) - 1) : s[i] < s[i + 1]}
    IN {[i \in 1..Len(s) |-> PathUniverse[s[i]]] : s \in rising}

Formats == {NoneFormat, "pretty", "compact", "serializable", "flat", "Compact"}

(***************************************************************************)
(* Calls of _prepare_report                                                *)
(***************************************************************************)
MaxCompactCalls == 1

QuantilesIdle ==
    /\ quantiles = << >>
    /\ num_quantile_groups = None
    /\ q_result = None
    /\ q_pc = "idle"

ShuffleIdle ==
    /\ data_length = 0
    /\ chunk_size = 0
    /\ indices = << >>
    /\ j = 0
    /\ chunk_ind = 0
    /\ count = 0
    /\ values = << >>
    /\ random_list = << >>
    /\ yielded = << >>
    /\ s_pc = "idle"

TransformIdle ==
    /\ report = None
    /\ omit_keys = << >>
    /\ omit0 = << >>
    /\ omit_in = << >>
    /\ output_format = NoneFormat
    /\ result = None
    /\ prev = None
    /\ pc = "idle"

Init ==
    /\ report \in Reports
    /\ omit_keys \in OmitLists
    /\ omit0 = omit_keys
    /\ omit_in = omit_keys
    /\ output_format = NoneFormat
    /\ result = None
    /\ prev = None
    /\ pc = "start"
    /\ QuantilesIdle
    /\ ShuffleIdle

\* the caller calls _prepare_report(report, fmt, omit_keys)
Call(fmt) ==
    /\ pc \in {"start", "called"}
    /\ Len(OmitKeysAfterCompact(fmt, omit_keys))
          <= Len(omit0) + MaxCompactCalls * Len(CompactOmitKeys)
    /\ omit_in' = omit_keys
    /\ output_format' = fmt
    /\ result' = PrepareReport(report, fmt, omit_keys)
    /\ omit_keys' = OmitKeysAfterCompact(fmt, omit_keys)
    /\ pc' = "called"
    /\ UNCHANGED <<report, omit0, prev>>

\* the caller passes the returned report back, with the same format and list
Reapply ==
    /\ pc = "called"
    /\ ~IsRaise(result)
    /\ omit_in' = omit_keys
    /\ prev' = result
    /\ result' = PrepareReport(result, output_format, omit_keys)
    /\ omit_keys' = OmitKeysAfterCompact(output_format, omit_keys)
    /\ pc' = "reapplied"
    /\ UNCHANGED <<report, omit0, output_format>>

Next ==
    \/ \E fmt \in Formats : Call(fmt) /\ UNCHANGED <<quantileVars, shuffleVars>>
    \/ Reapply /\ UNCHANGED <<quantileVars, shuffleVars>>

Spec == Init /\ [][Next]_vars

(***************************************************************************)
(* Properties of _prepare_report                                           *)
(***************************************************************************)
HasDataStatsList(rep) ==
    /\ IsDict(rep)
    /\ KeyDataStats \in DOMAIN rep.v
    /\ rep.v[KeyDataStats].t = "list"

Called == pc = "called"
Returned == Called /\ ~IsRaise(result)
LastFormat == FormatAfterCompact(output_format)

\* C1: a call never modifies its arguments: after any sequence of calls that
\* share the report and the omit_keys list, the list holds the paths the
\* caller put there, and the last call returned what it returns when it is
\* the only call made with that report, format and list.
C1_ArgumentsUntouched ==
    Called => /\ omit_keys = omit0
              /\ result = PrepareReport(report, output_format, omit0)

\* data_stats entry i (counted from 0) is omitted as a whole by a path
\* data_stats.<x>, x its index, its column name or the wildcard
WhollyOmitted(rep, omit, i) ==
    \E n \in 1..Len(omit) :
        LET segs == Split(omit[n], ".")
            rec == rep.v[KeyDataStats].v[i + 1]
        IN /\ Len(segs) = 2
           /\ segs[1] = KeyDataStats
           /\ \/ segs[2] = Wildcard
              \/ segs[2] = StrOfInt(i)
              \/ /\ IsDict(rec)
                 /\ <<"column_name">> \in DOMAIN rec.v
                 /\ rec.v[<<"column_name">>] = PyStr(segs[2])

\* C2: positional alignment: the output data_stats has the length of the
\* input data_stats, and every entry omitted as a whole is None at its place.
C2_OmittedRecordsAreNull ==
    (Returned /\ HasDataStatsList(report) /\ KeyDataStats \in DOMAIN result.v) =>
        LET in == report.v[KeyDataStats].v
            out == result.v[KeyDataStats]
        IN /\ out.t = "list"
           /\ Len(out.v) = Len(in)
           /\ \A i \in 0..(Len(in) - 1) :
                  WhollyOmitted(report, omit_in, i) => out.v[i + 1] = None

\* C3: omission paths never cause a failure: every call on a report that is
\* a dict returns a report, whatever the paths name.
C3_OmissionNeverRaises == (Called /\ IsDict(report)) => ~IsRaise(result)

\* a (possibly flattened) data_stats entry still shows its histogram
HistogramKey == <<"statistics", "_", "histogram">>
IsHistogramKey(k) ==
    \/ k = HistogramKey
    \/ Len(k) > Len(HistogramKey)
       /\ SubSeq(k, 1, Len(HistogramKey) + 1) = HistogramKey \o <<"_">>
HasHistogram(rec) ==
    \/ /\ <<"statistics">> \in DOMAIN rec.v
       /\ IsDict(rec.v[<<"statistics">>])
       /\ <<"histogram">> \in DOMAIN rec.v[<<"statistics">>].v
    \/ \E k \in DOMAIN rec.v : IsHistogramKey(k)

Restrict(f, keys) == [k \in keys |-> f[k]]
\* the entry without its histogram, every other field as it is
WithoutHistogram(rec) ==
    IF <<"statistics">> \in DOMAIN rec.v /\ IsDict(rec.v[<<"statistics">>])
    THEN PyDict([rec.v EXCEPT ![<<"statistics">>] =
                    PyDict(Restrict(@.v, DOMAIN @.v \ {<<"histogram">>}))])
    ELSE PyDict(Restrict(rec.v, {k \in DOMAIN rec.v : ~IsHistogramKey(k)}))

\* the report with its data_stats entries replaced
WithDataStats(rep, entries) == PyDict([rep.v EXCEPT ![KeyDataStats] = PyList(entries)])

\* C4 as stated: the path *.statistics.histogram removes the histogram of
\* every entry of a data_stats list.
C4_StarPathRemovesHistogram ==
    (Returned /\ HasDataStatsList(report) /\ omit_in = <<SpecHistogramPath>>) =>
        \A i \in 1..Len(result.v[KeyDataStats].v) :
            ~HasHistogram(result.v[KeyDataStats].v[i])

\* C4 amended: the path data_stats.*.statistics.histogram removes the
\* histogram of every entry of a data_stats list, whatever its column name,
\* and leaves every other field of the entries and of the report as the call
\* without the path returns them.
C4_DataStatsWildcardRemovesHistogram ==
    (Called /\ HasDataStatsList(report) /\ omit_in = <<HistogramPath>>) =>
        LET base == PrepareReport(report, output_format, << >>)
        IN /\ ~IsRaise(result)
           /\ \A i \in 1..Len(result.v[KeyDataStats].v) :
                  ~HasHistogram(result.v[KeyDataStats].v[i])
           /\ result = WithDataStats(base,
                  [i \in 1..Len(base.v[KeyDataStats].v) |->
                      WithoutHistogram(base.v[KeyDataStats].v[i])])

C4_Witness ==
    /\ Called
    /\ report = StructuredReport
    /\ omit_in = <<HistogramPath>>
    /\ output_format = NoneFormat
    /\ \A i \in 1..Len(report.v[KeyDataStats].v) :
           HasHistogram(report.v[KeyDataStats].v[i])
    /\ \E i \in 1..Len(result.v[KeyDataStats].v) :
           <<"min">> \in DOMAIN result.v[KeyDataStats].v[i].v[<<"statistics">>].v

\* the positions global_stats.profile_schema gives column name n
HasSchemaEntry(rep, n) ==
    ~IsRaise(SchemaLookup(rep.v, n)) /\ SchemaLookup(rep.v, n).t \in {"list", "ndarray"}
SchemaPositions(rep, n) ==
    LET idxs == SchemaLookup(rep.v, n)
    IN IF idxs.t = "ndarray" THEN {idxs.v[i] : i \in 1..Len(idxs.v)}
       ELSE {idxs.v[i].v : i \in 1..Len(idxs.v)}

\* omit is the one path data_stats.<n>.<rest> with n a column of the schema
IsNamePath(rep, omit) ==
    /\ Len(omit) = 1
    /\ LET segs == Split1(omit[1], ".")
       IN /\ Len(segs) = 2
          /\ segs[1] = KeyDataStats
          /\ LET below == Split1(segs[2], ".")
             IN /\ Len(below) = 2
                /\ Len(below[2]) > 0
                /\ below[1] # Wildcard
                /\ HasSchemaEntry(rep, below[1])
NameOf(omit) == Split1(Split1(omit[1], ".")[2], ".")[1]
RestOf(omit) == Split1(Split1(omit[1], ".")[2], ".")[2]

\* the report with only the data_stats entries at the positions in P
EntriesAt(rep, P) ==
    LET at == SortedList({i \in P : i < Len(rep.v[KeyDataStats].v)})
    IN WithDataStats(rep, [n \in 1..Len(at) |-> rep.v[KeyDataStats].v[at[n].v + 1]])
\* the place of position i among the positions in P
PlaceIn(P, i) == Cardinality({p \in P : p <= i})

C6_OmissionIdempotent == pc = "reapplied" => result = prev

\* no numeric array at any depth of a value
RECURSIVE ArrayFree(_)
ArrayFree(x) ==
    CASE x.t = "ndarray" -> FALSE
      [] x.t = "dict" -> \A k \in DOMAIN x.v : ArrayFree(x.v[k])
      [] x.t = "list" -> \A i \in 1..Len(x.v) : ArrayFree(x.v[i])
      [] OTHER -> TRUE

\* C7: the serializable output holds no numeric array at any depth.
C7_SerializableIsArrayFree ==
    (Returned /\ LastFormat = "serializable") => ArrayFree(result)

\* flat_dict applied once, to what a call returned
FlattenOnce(x) == IF IsRaise(x) THEN x ELSE Flatten(x)

\* a returned report with every entry of every data_stats list it was
\* assembled from flattened on its own
RECURSIVE FlattenRecords(_)
FlattenRecords(x) ==
    IF ~IsDict(x) THEN x
    ELSE PyDict([k \in DOMAIN x.v |->
            IF k = KeyDataStats /\ x.v[k].t = "list"
            THEN PyList([i \in 1..Len(x.v[k].v) |->
                            FlattenOnce(FlattenRecords(x.v[k].v[i]))])
            ELSE IF k = KeyProfileSchema THEN x.v[k]
            ELSE FlattenRecords(x.v[k])])

\* C9 as stated: the flat output is flat_dict applied once to the output of
\* the same call without a format.
C9_OnlyOuterFlattenShows ==
    (Called /\ LastFormat = "flat") =>
        result = FlattenOnce(PrepareReport(report, NoneFormat, omit_in))

\* C9 amended: the flat output is flat_dict applied once to the output of the
\* same call without a format in which every entry of a data_stats list has
\* been flattened on its own: the flattening at the return of a nested
\* mapping does not show, that of a data_stats entry does.
C9_FlatIsFlattenOfRecordsFlattened ==
    (Called /\ LastFormat = "flat") =>
        result = FlattenOnce(FlattenRecords(PrepareReport(report, NoneFormat, omit_in)))

C9_Witness ==
    /\ Returned
    /\ LastFormat = "flat"
    /\ HasDataStatsList(report)
    /\ KeyDataStats \in DOMAIN result.v
    /\ \E i \in 1..Len(result.v[KeyDataStats].v) :
           <<"statistics", "_", "min">> \in DOMAIN result.v[KeyDataStats].v[i].v
    /\ <<"global_stats", "_", "samples">> \in DOMAIN result.v

(***************************************************************************)
(* calculate_quantiles                                                     *)
(***************************************************************************)
MaxQuantiles == 8
DefaultGroups == 4

\* the quantiles argument: n distinct ascending values
QuantileValues(n) == [i \in 1..n |-> 100 + i]
QuantileLengths == 0..MaxQuantiles \cup {999}
GroupCounts == {None} \cup {PyInt(g) : g \in -1..(MaxQuantiles + 2)}

\* bool(x) of None or an int
Truthy(x) == x.t # "None" /\ x.v # 0

\* lines 7-9: the group count the function goes on with
GroupCount(groups, len_quant) ==
    IF ~(Truthy(groups) /\ 0 < groups.v /\ groups.v <= len_quant + 1)
    THEN DefaultGroups
    ELSE groups.v

\* math.ceil(a / b) for a >= 0, b > 0
Ceil(a, b) == (a + b - 1) \div b

\* line 19: math.ceil((ind + 1) * quant_multiplier) - 1, quant_multiplier
\* being (len_quant + 1) / num_quantile_groups.  The float product is the
\* exact one for the lengths and group counts of the model.
QuantileIndex(ind, len_quant, groups) == Ceil((ind + 1) * (len_quant + 1), groups) - 1

\* lines 18-22: the dict returned, or the IndexError of quantiles[...]
QuantileDict(quants, groups) ==
    IF \E ind \in 0..(groups - 2) : QuantileIndex(ind, Len(quants), groups) >= Len(quants)
    THEN Raise("IndexError")
    ELSE PyDict([ind \in 0..(groups - 2) |->
                    quants[QuantileIndex(ind, Len(quants), groups) + 1]])

InitQuantiles ==
    /\ quantiles \in {QuantileValues(n) : n \in QuantileLengths}
    /\ num_quantile_groups \in GroupCounts
    /\ q_result = None
    /\ q_pc = "start"
    /\ TransformIdle
    /\ ShuffleIdle

\* calculate_quantiles(num_quantile_groups, quantiles)
CalculateQuantiles ==
    /\ q_pc = "start"
    /\ q_result' = QuantileDict(quantiles, GroupCount(num_quantile_groups, Len(quantiles)))
    /\ q_pc' = "done"
    /\ UNCHANGED <<quantiles, num_quantile_groups>>

NextQuantiles == CalculateQuantiles /\ UNCHANGED <<transformVars, shuffleVars>>

SpecQuantiles == InitQuantiles /\ [][NextQuantiles]_vars

\* C8: the binner has no error path: for every sequence of N values and every
\* group count, with g the group count when 1 <= group count <= N + 1 and 4
\* otherwise, the call returns g - 1 entries keyed 0..g-2, entry i the value
\* at source index ceil((i + 1) * (N + 1) / g) - 1, an index in 0..N-1.
C8_QuantilesNeverFail ==
    q_pc = "done" =>
        LET N == Len(quantiles)
            given == num_quantile_groups
            g == IF given.t = "int" /\ 1 <= given.v /\ given.v <= N + 1
                 THEN given.v ELSE 4
        IN /\ ~IsRaise(q_result)
           /\ DOMAIN q_result.v = 0..(g - 2)
           /\ \A i \in 0..(g - 2) :
                  /\ Ceil((i + 1) * (N + 1), g) - 1 \in 0..(N - 1)
                  /\ q_result.v[i] = quantiles[Ceil((i + 1) * (N + 1), g)]

(***************************************************************************)
(* shuffle_in_chunks                                                       *)
(***************************************************************************)
MaxDataLength == 4
MaxChunkSize == 3

\* KeyDict.__missing__: a missing key is its own value, and is not stored
KeyDictGet(d, key) == IF key \in DOMAIN d THEN d[key] ELSE key

\* d[key] = value
KeyDictSet(d, key, value) ==
    [x \in DOMAIN d \cup {key} |-> IF x = key THEN value ELSE d[x]]

\* line 101: the number of chunks
ChunkCount(length, size) ==
    LET n == Ceil(length, size) IN IF n > 1 THEN n ELSE 1

\* line 104
TrueChunkSize(length, size, chunk) ==
    IF size < length - size * chunk THEN size ELSE length - size * chunk

\* RandomRange gone wrong: the draw ignores the lower bound
RandomRangeFromZero(low, high) == 0..(high - 1)

\* line 109: rng.integers(low, high) draws from low..high-1
RandomRange(low, high) == low..(high - 1)

\* lines 108-109: the lists rng.integers can return for this chunk
RandomLists(from, size, length) ==
    {r \in [1..size -> 0..(length - 1)] :
        \A c \in 1..size : r[c] \in RandomRange(from + c - 1, length)}

InitShuffle ==
    /\ data_length \in 0..MaxDataLength
    /\ chunk_size \in 0..MaxChunkSize
    /\ indices = << >>
    /\ j = 0
    /\ chunk_ind = 0
    /\ count = 0
    /\ values = << >>
    /\ random_list = << >>
    /\ yielded = << >>
    /\ s_pc = "start"
    /\ TransformIdle
    /\ QuantilesIdle

\* lines 85-87: nothing to shuffle, the generator ends without a chunk
ShuffleNothing ==
    /\ s_pc = "start"
    /\ data_length = 0 \/ chunk_size = 0
    /\ s_pc' = "done"
    /\ UNCHANGED <<data_length, chunk_size, indices, j, chunk_ind, count, values,
                   random_list, yielded>>

\* lines 101-109: the next chunk begins, its random draws are made
ShuffleStartChunk ==
    /\ s_pc \in {"start", "chunk"}
    /\ data_length # 0 /\ chunk_size # 0
    /\ chunk_ind < ChunkCount(data_length, chunk_size)
    /\ LET true_chunk_size == TrueChunkSize(data_length, chunk_size, chunk_ind)
       IN /\ values' = [c \in 1..true_chunk_size |-> -1]
          /\ random_list' \in RandomLists(j, true_chunk_size, data_length)
    /\ count' = 0
    /\ s_pc' = "fill"
    /\ UNCHANGED <<data_length, chunk_size, indices, j, chunk_ind, yielded>>

\* lines 112-122: one turn of the inner loop
ShuffleSwap ==
    /\ s_pc = "fill"
    /\ count < Len(values)
    /\ LET k == random_list[count + 1]
           at_k == KeyDictGet(indices, k)
           at_j == KeyDictGet(indices, j)
           swapped == KeyDictSet(KeyDictSet(indices, j, at_k), k, at_j)
       IN /\ indices' = swapped
          /\ values' = [values EXCEPT ![count + 1] = KeyDictGet(swapped, j)]
    /\ j' = j + 1
    /\ count' = count + 1
    /\ UNCHANGED <<data_length, chunk_size, chunk_ind, random_list, yielded, s_pc>>

\* line 124, and the chunk loop going on or ending
ShuffleYield ==
    /\ s_pc = "fill"
    /\ count = Len(values)
    /\ yielded' = Append(yielded, values)
    /\ chunk_ind' = chunk_ind + 1
    /\ s_pc' = IF chunk_ind + 1 < ChunkCount(data_length, chunk_size)
               THEN "chunk" ELSE "done"
    /\ UNCHANGED <<data_length, chunk_size, indices, j, count, values, random_list>>

NextShuffle ==
    \/ ShuffleNothing /\ UNCHANGED <<transformVars, quantileVars>>
    \/ ShuffleStartChunk /\ UNCHANGED <<transformVars, quantileVars>>
    \/ ShuffleSwap /\ UNCHANGED <<transformVars, quantileVars>>
    \/ ShuffleYield /\ UNCHANGED <<transformVars, quantileVars>>

SpecShuffle == InitShuffle /\ [][NextShuffle]_vars

\* every index the chunks yielded so far, in the order yielded
YieldedIndices == Concat(yielded)

\* C10: shuffle_in_chunks yields a permutation: no index is ever yielded
\* twice, and once the generator is exhausted (data_length >= 1 and
\* chunk_size >= 1) the chunks hold every index 0..data_length-1 exactly
\* once, in ceil(data_length / chunk_size) chunks, each of chunk_size
\* indices but the last, which holds the remainder.
C10_ShuffleYieldsPermutation ==
    (data_length >= 1 /\ chunk_size >= 1) =>
        /\ \A a, b \in 1..Len(YieldedIndices) :
               YieldedIndices[a] = YieldedIndices[b] => a = b
        /\ s_pc = "done" =>
               /\ {YieldedIndices[a] : a \in 1..Len(YieldedIndices)} = 0..(data_length - 1)
               /\ Len(YieldedIndices) = data_length
               /\ Len(yielded) = Ceil(data_length, chunk_size)
               /\ \A c \in 1..(Len(yielded) - 1) : Len(yielded[c]) = chunk_size
               /\ Len(yielded[Len(yielded)])
                     = data_length - chunk_size * (Len(yielded) - 1)

C10_Witness ==
    /\ s_pc = "done"
    /\ data_length >= 1 /\ chunk_size >= 1
    /\ Len(yielded) >= 2
    /\ Len(yielded[Len(yielded)]) < chunk_size
    /\ \E a \in 1..Len(YieldedIndices) : YieldedIndices[a] # a - 1

=============================================================================
